---------------------------- MODULE Spec2Model ----------------------------
(***************************************************************************)
(* A model of LineHighlighter (src/highlighter.py): the Settings value,    *)
(* the HotkeyListener, the HighlightBar overlay, the SettingsDialog with   *)
(* its QSettings store, and the Controller that wires them together.       *)
(*                                                                         *)
(* Python strings are sequences of one-character strings, so that str(),   *)
(* int(), float(), QColor(name) and QColor.name() are real conversions.    *)
(* Floats that the program handles (alpha) are counted in hundredths: the  *)
(* QDoubleSpinBox that produces them has two decimals.                     *)
(***************************************************************************)
EXTENDS Integers, Sequences, FiniteSets, TLC

VARIABLES
    store,      \* QSettings('LineHighlighter','LineHighlighter'): key -> str
    dialog,     \* the SettingsDialog's fields, or NoDialog before construction
    overlay,    \* Controller.overlay: 0 (None) or the id of a HighlightBar
    bar,        \* the fields of the HighlightBar that `overlay` refers to
    shown,      \* ids of the overlay windows that are visible on screen
    cursor,     \* QCursor.pos()
    platform,   \* sys.platform
    err,        \* the exception the last handler raised, or "none"
    running,    \* FALSE once an uncaught exception has ended the process
    last,       \* the last operation and the part of its pre-state it read
    listener,   \* a HotkeyListener: its _key and the calls of its callback
    probe,      \* a HighlightBar built directly from a Settings value
    qt          \* what the names QtGui, QtCore and QtWidgets are bound to

vars == <<store, dialog, overlay, bar, shown, cursor, platform,
          err, running, last, listener, probe, qt>>

(***************************************************************************)
(* Bounds of the model.                                                    *)
(***************************************************************************)
\* How many calls of the listener's callback are counted.
MaxCalls == 2

(***************************************************************************)
(* Characters and strings.                                                 *)
(***************************************************************************)
DigitChars == <<"0", "1", "2", "3", "4", "5", "6", "7", "8", "9">>

HexChars == <<"0", "1", "2", "3", "4", "5", "6", "7", "8", "9",
              "a", "b", "c", "d", "e", "f">>

UpperChars == <<"A", "B", "C", "D", "E", "F", "G", "H", "I", "J", "K", "L", "M",
                "N", "O", "P", "Q", "R", "S", "T", "U", "V", "W", "X", "Y", "Z">>

LowerChars == <<"a", "b", "c", "d", "e", "f", "g", "h", "i", "j", "k", "l", "m",
                "n", "o", "p", "q", "r", "s", "t", "u", "v", "w", "x", "y", "z">>

Range(s) == {s[i] : i \in DOMAIN s}

IndexOf(s, c) == CHOOSE i \in DOMAIN s : s[i] = c

IsDigit(c) == c \in Range(DigitChars)

DigitVal(c) == IndexOf(DigitChars, c) - 1

\* str.lower() on one character and on a string.
lower_char(c) == IF c \in Range(UpperChars) THEN LowerChars[IndexOf(UpperChars, c)] ELSE c

lower(s) == [i \in DOMAIN s |-> lower_char(s[i])]

Min(a, b) == IF a <= b THEN a ELSE b

Max(a, b) == IF a >= b THEN a ELSE b

\* str(n) for an int.
RECURSIVE str_int(_)
str_int(n) ==
    IF n < 0 THEN <<"-">> \o str_int(-n)
    ELSE IF n < 10 THEN <<DigitChars[n + 1]>>
    ELSE str_int(n \div 10) \o <<DigitChars[(n % 10) + 1]>>

RECURSIVE DigitsVal(_)
DigitsVal(s) ==
    IF Len(s) = 0 THEN 0
    ELSE 10 * DigitsVal(SubSeq(s, 1, Len(s) - 1)) + DigitVal(s[Len(s)])

AllDigits(s) == Len(s) > 0 /\ \A i \in DOMAIN s : IsDigit(s[i])

\* int(s) for a str: an optional sign and decimal digits, ValueError otherwise.
int_(s) ==
    IF AllDigits(s) THEN [ok |-> TRUE, val |-> DigitsVal(s)]
    ELSE IF Len(s) > 1 /\ s[1] = "-" /\ AllDigits(Tail(s))
        THEN [ok |-> TRUE, val |-> -DigitsVal(Tail(s))]
    ELSE [ok |-> FALSE, val |-> 0]

\* str(x) for a float of at most two decimals, x given in hundredths:
\* 30 is 0.3 and prints "0.3", 5 prints "0.05", 100 prints "1.0".
str_float(h) ==
    LET f == h % 100
    IN  str_int(h \div 100) \o <<".">> \o
        (IF f % 10 = 0 THEN <<DigitChars[(f \div 10) + 1]>>
         ELSE <<DigitChars[(f \div 10) + 1], DigitChars[(f % 10) + 1]>>)

DotAt(s) == IF "." \in Range(s) THEN IndexOf(s, ".") ELSE 0

\* float(s) for a str, in hundredths: digits, optionally a point and at most
\* two more digits; ValueError otherwise.
float_(s) ==
    LET d == DotAt(s)
        ip == IF d = 0 THEN s ELSE SubSeq(s, 1, d - 1)
        fp == IF d = 0 THEN <<>> ELSE SubSeq(s, d + 1, Len(s))
    IN  IF /\ AllDigits(ip)
           /\ Len(fp) <= 2
           /\ \A i \in DOMAIN fp : IsDigit(fp[i])
        THEN [ok |-> TRUE,
              val |-> 100 * DigitsVal(ip)
                      + (IF Len(fp) = 0 THEN 0
                         ELSE IF Len(fp) = 1 THEN 10 * DigitVal(fp[1])
                         ELSE DigitsVal(fp))]
        ELSE [ok |-> FALSE, val |-> 0]


(***************************************************************************)
(* QColor: the colour spec, 8-bit red, green and blue, and the 16-bit      *)
(* alpha channel that QColor keeps and operator== compares.                *)
(***************************************************************************)
AlphaOpaque == 65535

\* QColor(): the default-constructed, invalid colour.
QColor_invalid == [spec |-> "Invalid", r |-> 0, g |-> 0, b |-> 0, a |-> AlphaOpaque]

\* QColor(r, g, b, a) with an 8-bit alpha.
QColor_rgba(r, g, b, a) == [spec |-> "Rgb", r |-> r, g |-> g, b |-> b, a |-> a * 257]

\* QColor(r, g, b): alpha defaults to 255.
QColor_rgb(r, g, b) == QColor_rgba(r, g, b, 255)

IsHex(c) == lower_char(c) \in Range(HexChars)

HexVal(c) == IndexOf(HexChars, lower_char(c)) - 1

Hex2(v) == <<HexChars[(v \div 16) + 1], HexChars[(v % 16) + 1]>>

\* QColor(name) for a str: "#rrggbb" gives that colour, anything else that
\* is no colour name gives the invalid colour.
QColor_str(s) ==
    IF Len(s) = 7 /\ s[1] = "#" /\ \A i \in 2..7 : IsHex(s[i])
    THEN QColor_rgb(16 * HexVal(s[2]) + HexVal(s[3]),
                    16 * HexVal(s[4]) + HexVal(s[5]),
                    16 * HexVal(s[6]) + HexVal(s[7]))
    ELSE QColor_invalid

\* QColor.name(): "#rrggbb", without the alpha channel.
QColor_name(c) == <<"#">> \o Hex2(c.r) \o Hex2(c.g) \o Hex2(c.b)

\* QColor.setAlphaF(alpha), alpha in hundredths: qRound(alpha * 65535).
setAlphaF(c, alpha) == [c EXCEPT !.a = (alpha * AlphaOpaque + 50) \div 100]

\* QColor.isValid()
isValid(c) == c.spec # "Invalid"

(***************************************************************************)
(* Settings (the dataclass) and its defaults.                              *)
(***************************************************************************)
Settings(width, height, alpha, color) ==
    [width |-> width, height |-> height, alpha |-> alpha, color |-> color]

\* int(alpha * 255) for alpha in hundredths.
int_alpha255(alpha) == (alpha * 255) \div 100

\* Settings(): the dataclass's field defaults.
Settings_default == Settings(800, 30, 30, QColor_rgba(255, 255, 0, int_alpha255(30)))

(***************************************************************************)
(* The screens of the desktop and the cursor.                              *)
(***************************************************************************)
Screens == << [x |-> 0,    y |-> 0, w |-> 1000, h |-> 800],
              [x |-> 1000, y |-> 0, w |-> 1920, h |-> 1080] >>

\* QApplication.primaryScreen()
primaryScreen == Screens[1]

\* The points the cursor visits: on the first screen, on the second, and
\* one (left of the first screen) that no screen contains.
CursorPoints == { [x |-> 500, y |-> 300], [x |-> 1500, y |-> 300],
                  [x |-> -10, y |-> 400] }

Contains(sc, p) ==
    /\ sc.x <= p.x /\ p.x < sc.x + sc.w
    /\ sc.y <= p.y /\ p.y < sc.y + sc.h

\* QApplication.screenAt(pos): the index of the screen, 0 for None.
screenAt(p) ==
    IF \E i \in DOMAIN Screens : Contains(Screens[i], p)
    THEN CHOOSE i \in DOMAIN Screens : Contains(Screens[i], p)
    ELSE 0

\* The screen_w of HighlightBar.__init__ and update_settings.
screen_w(p) ==
    IF screenAt(p) # 0 THEN Screens[screenAt(p)].w ELSE primaryScreen.w

(***************************************************************************)
(* HighlightBar.                                                           *)
(***************************************************************************)
Platforms == {"win32", "darwin", "linux"}

\* sys.platform.startswith('win')
startswith_win(p) == p = "win32"

NoAlpha == -1

NoBar == [id |-> 0]

\* Nothing has been painted.
NoFill == [spec |-> "None"]

\* HighlightBar.__init__(settings) with the cursor at p.  Besides the
\* object's fields the record holds what the window system knows of the
\* window: whether it is visible, whether the events of its showing have
\* been processed (flushed), the colour of its last fill, and whether it
\* was visible and flushed when click-through was applied.
HighlightBar_init(id, settings, p) ==
    [id |-> id,
     settings |-> settings,
     desired_width |-> Min(settings.width, screen_w(p)),
     desired_height |-> settings.height,
     fixed |-> <<Min(settings.width, screen_w(p)), settings.height>>,
     color |-> settings.color,
     click_through_applied |-> FALSE,
     layered_alpha |-> NoAlpha,
     pos |-> <<0, 0>>,
     visible |-> FALSE,
     flushed |-> FALSE,
     realized_at_apply |-> FALSE,
     fill |-> NoFill]

\* QWidget.show()
show(b) == [b EXCEPT !.visible = TRUE]

\* paintEvent with the colour object kept from construction or the last
\* update, alpha and all.
paintEvent_cached(b) == [b EXCEPT !.fill = b.color]

\* HighlightBar.paintEvent(event): the fill is a new colour of the stored
\* red, green and blue with setAlphaF(self.settings.alpha).
paintEvent(b) ==
    [b EXCEPT !.fill = setAlphaF(QColor_rgb(b.color.r, b.color.g, b.color.b),
                                 b.settings.alpha)]

\* QWidget.repaint(): paints at once, if the window is visible.
repaint(b) == IF b.visible THEN paintEvent(b) ELSE b

\* update_position without the setFixedSize that follows a new width.
update_position_unsized(b, p) ==
    LET sc == screenAt(p)
        new_width == IF sc # 0 THEN Min(b.settings.width, Screens[sc].w)
                     ELSE b.desired_width
        x == IF sc # 0 THEN Screens[sc].x ELSE 0
        y == p.y - (b.desired_height \div 2)
    IN  repaint([b EXCEPT !.desired_width = new_width, !.pos = <<x, y>>])

\* HighlightBar.update_position() with the cursor at p.
update_position(b, p) ==
    LET sc == screenAt(p)
        new_width == IF sc # 0 THEN Min(b.settings.width, Screens[sc].w)
                     ELSE b.desired_width
        x == IF sc # 0 THEN Screens[sc].x ELSE 0
        y == p.y - (b.desired_height \div 2)
    IN  repaint([b EXCEPT !.desired_width = new_width,
                          !.fixed = IF new_width # b.desired_width
                                    THEN <<new_width, b.desired_height>> ELSE @,
                          !.pos = <<x, y>>])

\* QApplication.processEvents(): the overlay's 10 ms timer may be due, and
\* a visible window gets the show and paint events that are pending.
processEvents(b, p, due) ==
    LET ticked == IF due THEN update_position(b, p) ELSE b
    IN  IF ticked.visible THEN [paintEvent(ticked) EXCEPT !.flushed = TRUE]
        ELSE ticked

\* HighlightBar._update_alpha_win(); the native call may fail, and the
\* exception is caught.
update_alpha_win(b, native_ok) ==
    IF native_ok THEN [b EXCEPT !.layered_alpha = int_alpha255(b.settings.alpha)] ELSE b

\* update_settings without `self.settings = settings`.
update_settings_keeps_settings(b, settings, p, plat, native_ok) ==
    LET b1 == [b EXCEPT !.desired_width = Min(settings.width, screen_w(p)),
                        !.desired_height = settings.height,
                        !.fixed = <<Min(settings.width, screen_w(p)), settings.height>>,
                        !.color = QColor_rgb(settings.color.r, settings.color.g,
                                             settings.color.b)]
    IN  IF startswith_win(plat) /\ b1.click_through_applied
        THEN update_alpha_win(b1, native_ok) ELSE b1

\* update_settings without `self._desired_height = settings.height`.
update_settings_stale_height(b, settings, p, plat, native_ok) ==
    LET b1 == [b EXCEPT !.settings = settings,
                        !.desired_width = Min(settings.width, screen_w(p)),
                        !.fixed = <<Min(settings.width, screen_w(p)), b.desired_height>>,
                        !.color = QColor_rgb(settings.color.r, settings.color.g,
                                             settings.color.b)]
    IN  IF startswith_win(plat) /\ b1.click_through_applied
        THEN update_alpha_win(b1, native_ok) ELSE b1

\* HighlightBar.update_settings(settings), up to its processEvents().
update_settings(b, settings, p, plat, native_ok) ==
    LET b1 == [b EXCEPT !.settings = settings,
                        !.desired_width = Min(settings.width, screen_w(p)),
                        !.desired_height = settings.height,
                        !.fixed = <<Min(settings.width, screen_w(p)), settings.height>>,
                        !.color = QColor_rgb(settings.color.r, settings.color.g,
                                             settings.color.b)]
    IN  IF startswith_win(plat) /\ b1.click_through_applied
        THEN update_alpha_win(b1, native_ok) ELSE b1

\* apply_click_through without its `if self._click_through_applied: return`.
apply_click_through_again(b, plat, native_ok) ==
    IF startswith_win(plat)
    THEN [update_alpha_win(b, native_ok) EXCEPT
              !.fixed = <<b.desired_width, b.desired_height>>,
              !.click_through_applied = TRUE,
              !.realized_at_apply = b.visible /\ b.flushed]
    ELSE [b EXCEPT !.click_through_applied = TRUE,
                   !.realized_at_apply = b.visible /\ b.flushed]

\* HighlightBar.apply_click_through(); a failing native call is caught
\* inside _make_click_through_win and _make_click_through_mac.
apply_click_through(b, plat, native_ok) ==
    IF b.click_through_applied THEN b
    ELSE IF startswith_win(plat)
        THEN [update_alpha_win(b, native_ok) EXCEPT
                  !.fixed = <<b.desired_width, b.desired_height>>,
                  !.click_through_applied = TRUE,
                  !.realized_at_apply = b.visible /\ b.flushed]
    ELSE [b EXCEPT !.click_through_applied = TRUE,
                   !.realized_at_apply = b.visible /\ b.flushed]

(***************************************************************************)
(* The preferences store (QSettings) and the SettingsDialog.               *)
(***************************************************************************)
PrefKeys == {"width", "height", "alpha", "color"}

WindowKeys == {"geometry", "windowState", "size", "pos"}

\* QSettings.value(key, default)
value(st, key, default) == IF key \in DOMAIN st THEN st[key] ELSE default

\* SettingsDialog.clearWindowSettings()
clearWindowSettings(st) == [k \in (DOMAIN st) \ WindowKeys |-> st[k]]

WidthMin == 10
WidthMax == 99999
HeightMin == 2
HeightMax == 1000
AlphaMin == 5
AlphaMax == 100
\* The range a QSpinBox has before minimum and maximum are set.
SpinDefaultMax == 99

Clamp(v, lo, hi) == Max(lo, Min(hi, v))

\* The values SettingsDialog.__init__ hands to the spin boxes: one try block
\* converts width, height and alpha, and any failure resets all three.
load_numbers(st) ==
    LET width_value == int_(value(st, "width", str_int(primaryScreen.w)))
        height_value == int_(value(st, "height", <<"3", "0">>))
        alpha_value == float_(value(st, "alpha", <<"0", ".", "3">>))
    IN  IF width_value.ok /\ height_value.ok /\ alpha_value.ok
        THEN [width |-> width_value.val, height |-> height_value.val,
              alpha |-> alpha_value.val]
        ELSE [width |-> primaryScreen.w, height |-> 30, alpha |-> 30]

NoPicker == [open |-> FALSE]

\* SettingsDialog.__init__: the fields the dialog ends up with.  The width
\* spin box gets its range first and its value after; the height and alpha
\* spin boxes get value, minimum and maximum as properties, in that order,
\* so their value is first cut to the default range of the widget.
SettingsDialog_init(st) ==
    LET n == load_numbers(st)
    IN  [width_spin |-> Clamp(n.width, WidthMin, WidthMax),
         height_spin |-> Min(HeightMax, Max(HeightMin, Clamp(n.height, 0, SpinDefaultMax))),
         alpha_spin |-> Min(AlphaMax, Max(AlphaMin, Clamp(n.alpha, 0, 100 * SpinDefaultMax + 99))),
         color |-> QColor_str(value(st, "color", <<"#", "f", "f", "f", "f", "0", "0">>)),
         original_color |-> QColor_invalid,
         picker |-> NoPicker,
         toggle_text |-> "Start Highlighter",
         highlighter_active |-> FALSE]

NoDialog == [toggle_text |-> "none"]

\* SettingsDialog.get_settings()
get_settings(d) ==
    Settings(d.width_spin, d.height_spin, d.alpha_spin, setAlphaF(d.color, d.alpha_spin))

\* SettingsDialog.save_settings(s)
save_settings(st, s) ==
    [k \in (DOMAIN st) \cup PrefKeys |->
        CASE k = "width" -> str_int(s.width)
          [] k = "height" -> str_int(s.height)
          [] k = "alpha" -> str_float(s.alpha)
          [] k = "color" -> QColor_name(s.color)
          [] OTHER -> st[k]]

(***************************************************************************)
(* The Controller.  A handler is an operator from the program state w      *)
(* (store, dialog, overlay, bar, shown, err, and shown_at: where the       *)
(* handler showed a window, if it showed one) and the handler's            *)
(* environment e (the cursor position p, the platform plat, whether the    *)
(* overlay's timer is due when events are flushed, and whether the native  *)
(* click-through call succeeds) to the state it leaves.  An overlay object *)
(* that loses its last reference is deallocated at once (reference         *)
(* counting), and its window goes with it.                                 *)
(***************************************************************************)

\* The objects that are alive: the one the controller refers to and the
\* windows on screen.
Alive(w) == w.shown \cup ({w.overlay} \ {0})

\* The identity of a new object: one that no live object has.
NewId(w) == CHOOSE i \in 1..(Cardinality(Alive(w)) + 1) :
                /\ i \notin Alive(w)
                /\ \A j \in 1..(i - 1) : j \in Alive(w)

\* Whether apply_click_through on b makes a native call, and it raises.
click_through_fails(b, plat, native_ok) ==
    /\ ~b.click_through_applied
    /\ IF startswith_win(plat) THEN TRUE ELSE plat = "darwin"
    /\ ~native_ok

\* start_highlighter with apply_click_through() called right after the
\* overlay is constructed, before show() and processEvents().
start_highlighter_early_click_through(w, e) ==
    LET settings == get_settings(w.dialog)
        created == HighlightBar_init(NewId(w), settings, e.p)
        applied == apply_click_through(created, e.plat, e.native_ok)
        visible == show(applied)
    IN  [w EXCEPT !.store = save_settings(w.store, settings),
                  !.overlay = NewId(w),
                  !.shown = (w.shown \ {w.overlay}) \cup {NewId(w)},
                  !.shown_at = visible.pos,
                  !.native_failed = click_through_fails(created, e.plat, e.native_ok),
                  !.bar = processEvents(visible, e.p, e.due)]

\* start_highlighter if the native click-through call were made without
\* try/except: the exception leaves apply_click_through and the handler.
start_highlighter_uncaught(w, e) ==
    LET settings == get_settings(w.dialog)
        created == HighlightBar_init(NewId(w), settings, e.p)
        visible == show(created)
        flushed == processEvents(visible, e.p, e.due)
        fails == click_through_fails(flushed, e.plat, e.native_ok)
    IN  [w EXCEPT !.store = save_settings(w.store, settings),
                  !.overlay = NewId(w),
                  !.shown = (w.shown \ {w.overlay}) \cup {NewId(w)},
                  !.shown_at = visible.pos,
                  !.native_failed = fails,
                  !.err = IF fails THEN "OSError" ELSE @,
                  !.bar = IF fails THEN flushed
                          ELSE apply_click_through(flushed, e.plat, e.native_ok)]

\* Controller.start_highlighter()
start_highlighter(w, e) ==
    LET settings == get_settings(w.dialog)
        created == HighlightBar_init(NewId(w), settings, e.p)
        visible == show(created)
        flushed == processEvents(visible, e.p, e.due)
    IN  [w EXCEPT !.store = save_settings(w.store, settings),
                  !.overlay = NewId(w),
                  !.shown = (w.shown \ {w.overlay}) \cup {NewId(w)},
                  !.shown_at = visible.pos,
                  !.native_failed = click_through_fails(flushed, e.plat, e.native_ok),
                  !.bar = apply_click_through(flushed, e.plat, e.native_ok)]

\* stop_highlighter without its `if self.overlay:` guard: None has no close().
stop_highlighter_unguarded(w) ==
    IF w.overlay # 0
    THEN [w EXCEPT !.shown = w.shown \ {w.overlay}, !.overlay = 0, !.bar = NoBar]
    ELSE [w EXCEPT !.err = "AttributeError"]

\* Controller.stop_highlighter()
stop_highlighter(w) ==
    IF w.overlay # 0
    THEN [w EXCEPT !.shown = w.shown \ {w.overlay}, !.overlay = 0, !.bar = NoBar]
    ELSE w

\* toggle_highlighter whose stop branch leaves the button and the flag as
\* they are.
toggle_highlighter_stale_button(w, e) ==
    IF w.overlay = 0
    THEN [start_highlighter(w, e) EXCEPT
              !.dialog.toggle_text = "Stop Highlighter",
              !.dialog.highlighter_active = TRUE]
    ELSE stop_highlighter(w)

\* Controller.toggle_highlighter()
toggle_highlighter(w, e) ==
    IF w.overlay = 0
    THEN [start_highlighter(w, e) EXCEPT
              !.dialog.toggle_text = "Stop Highlighter",
              !.dialog.highlighter_active = TRUE]
    ELSE [stop_highlighter(w) EXCEPT
              !.dialog.toggle_text = "Start Highlighter",
              !.dialog.highlighter_active = FALSE]

\* recreate_overlay without move(old_pos): the new window is shown where a
\* new window starts.
recreate_overlay_unmoved(w, settings, e) ==
    LET created == HighlightBar_init(NewId(w), settings, e.p)
        visible == show(created)
        flushed == processEvents(visible, e.p, e.due)
    IN  [w EXCEPT !.overlay = NewId(w),
                  !.shown = (w.shown \ {w.overlay}) \cup {NewId(w)},
                  !.shown_at = visible.pos,
                  !.native_failed = click_through_fails(flushed, e.plat, e.native_ok),
                  !.bar = apply_click_through(flushed, e.plat, e.native_ok)]

\* The colour branch of Controller.live_update_settings(): close the overlay
\* and create, move, show, flush and configure a new one.
recreate_overlay(w, settings, e) ==
    LET old_pos == w.bar.pos
        created == HighlightBar_init(NewId(w), settings, e.p)
        moved == [created EXCEPT !.pos = old_pos]
        visible == show(moved)
        flushed == processEvents(visible, e.p, e.due)
    IN  [w EXCEPT !.overlay = NewId(w),
                  !.shown = (w.shown \ {w.overlay}) \cup {NewId(w)},
                  !.shown_at = visible.pos,
                  !.native_failed = click_through_fails(flushed, e.plat, e.native_ok),
                  !.bar = apply_click_through(flushed, e.plat, e.native_ok)]

\* live_update_settings without the colour comparison: every change
\* recreates the overlay.
live_update_settings_recreating(w, e) ==
    IF w.overlay # 0
    THEN LET settings == get_settings(w.dialog)
         IN  [recreate_overlay(w, settings, e) EXCEPT
                  !.store = save_settings(w.store, settings)]
    ELSE [w EXCEPT !.err = "UnboundLocalError"]

\* Controller.live_update_settings(): `settings` is bound only when an
\* overlay exists, and save_settings(settings) follows in either case.
live_update_settings(w, e) ==
    IF w.overlay # 0
    THEN LET settings == get_settings(w.dialog)
             current_color == QColor_name(w.bar.color)
             new_color == QColor_name(settings.color)
             w1 == IF current_color # new_color
                   THEN recreate_overlay(w, settings, e)
                   ELSE [w EXCEPT !.native_failed = /\ startswith_win(e.plat)
                                                    /\ w.bar.click_through_applied
                                                    /\ ~e.native_ok,
                                  !.bar = processEvents(
                            update_settings(w.bar, settings, e.p, e.plat, e.native_ok),
                            e.p, e.due)]
         IN  [w1 EXCEPT !.store = save_settings(w.store, settings)]
    ELSE [w EXCEPT !.err = "UnboundLocalError"]

(***************************************************************************)
(* The application: the state after Controller.__init__ has built the      *)
(* dialog, and one action per event the event loop delivers or method the  *)
(* Controller offers.                                                      *)
(***************************************************************************)
WidthChoices == {1000, 1500}

HeightChoices == {30, 45}

AlphaChoices == {30, 100}

ColourChoices == {QColor_rgb(255, 255, 0), QColor_rgb(17, 34, 51)}

\* What the store may hold when the program starts: nothing, a colour that
\* is none, or what an earlier run saved (with a window geometry an older
\* version left behind).
InitStores ==
    { <<>>,
      [k \in {"color"} |-> <<"z", "z">>],
      [k \in PrefKeys \cup {"geometry"} |->
          CASE k = "width" -> <<"1", "5", "0", "0">>
            [] k = "height" -> <<"4", "5">>
            [] k = "alpha" -> <<"1", ".", "0">>
            [] k = "color" -> <<"#", "1", "1", "2", "2", "3", "3">>
            [] OTHER -> <<"x">>] }

NoListener == [configured |-> <<>>]

RGB(c) == <<c.r, c.g, c.b>>

World ==
    [store |-> store, dialog |-> dialog, overlay |-> overlay, bar |-> bar,
     shown |-> shown, err |-> "none", shown_at |-> <<>>, native_failed |-> FALSE]

\* The outcomes of the native click-through call: Linux makes none.
NativeOutcomes == IF platform = "linux" THEN {TRUE} ELSE BOOLEAN

Env(due, native_ok) ==
    [p |-> cursor, plat |-> platform, due |-> due, native_ok |-> native_ok]

\* What `last` records of an operation: its name, whether it is a stop that
\* directly follows a stop that closed an overlay, where it showed a window
\* (<<>> if it showed none), whether a native call it made raised (and was
\* caught), and what it found: no overlay ("idle"), an overlay of the
\* colour the settings surface shows ("same") or of another colour
\* ("changed").
Record(op, d, at, failed) ==
    [op |-> op,
     shown_at |-> at,
     native_failed |-> failed,
     after_stop |-> op = "stop" /\ last.op = "stop" /\ last.found # "idle",
     found |-> IF overlay = 0 THEN "idle"
               ELSE IF RGB(bar.color) = RGB(d.color) THEN "same" ELSE "changed"]

\* The program state becomes w; an exception that no handler catches
\* reaches the event loop, and PyQt5 ends the process (qFatal).
Commit(op, d, w) ==
    /\ store' = w.store
    /\ dialog' = w.dialog
    /\ overlay' = w.overlay
    /\ bar' = w.bar
    /\ shown' = w.shown
    /\ err' = w.err
    /\ running' = (w.err = "none")
    /\ last' = Record(op, d, w.shown_at, w.native_failed)
    /\ UNCHANGED <<cursor, platform, qt, listener, probe>>

AppRunning == running /\ dialog # NoDialog /\ probe = NoBar /\ listener = NoListener

\* settings_changed is emitted with the dialog's fields now d.
Emit(d) ==
    /\ \E due \in BOOLEAN, native_ok \in NativeOutcomes :
          Commit("live_update_settings", d, live_update_settings([World EXCEPT !.dialog = d],
                                             Env(due, native_ok)))

\* width_spin.valueChanged
SetWidth ==
    /\ AppRunning /\ ~dialog.picker.open
    /\ \E v \in WidthChoices \ {dialog.width_spin} :
          Emit([dialog EXCEPT !.width_spin = v])

\* height_spin.valueChanged
SetHeight ==
    /\ AppRunning /\ ~dialog.picker.open
    /\ \E v \in HeightChoices \ {dialog.height_spin} :
          Emit([dialog EXCEPT !.height_spin = v])

\* alpha_spin.valueChanged
SetAlpha ==
    /\ AppRunning /\ ~dialog.picker.open
    /\ \E v \in AlphaChoices \ {dialog.alpha_spin} :
          Emit([dialog EXCEPT !.alpha_spin = v])

\* SettingsDialog.choose_color(), up to dialog.exec_()
ChooseColor ==
    /\ AppRunning /\ ~dialog.picker.open
    /\ dialog' = [dialog EXCEPT !.original_color = dialog.color,
                                !.picker = [open |-> TRUE]]
    /\ last' = Record("choose", dialog, <<>>, FALSE)
    /\ err' = "none"
    /\ UNCHANGED <<store, overlay, bar, shown, cursor, platform, qt, running,
                   listener, probe>>

\* SettingsDialog._preview_color_live(col): currentColorChanged
PreviewColor ==
    /\ AppRunning /\ dialog.picker.open
    /\ \E col \in ColourChoices :
          /\ IF isValid(dialog.color) THEN RGB(col) # RGB(dialog.color) ELSE TRUE
          /\ Emit([dialog EXCEPT !.color = QColor_rgb(col.r, col.g, col.b)])

\* SettingsDialog._update_color(col): colorSelected, then exec_() returns 1
AcceptColor ==
    /\ AppRunning /\ dialog.picker.open
    /\ \E col \in ColourChoices :
          /\ IF isValid(dialog.color) THEN RGB(col) = RGB(dialog.color) ELSE TRUE
          /\ Emit([dialog EXCEPT !.color = QColor_rgb(col.r, col.g, col.b),
                                           !.picker = NoPicker])

\* SettingsDialog.choose_color() after exec_() returned 0
CancelColor ==
    /\ AppRunning /\ dialog.picker.open
    /\ Emit([dialog EXCEPT !.color = dialog.original_color,
                                     !.picker = NoPicker])

\* toggle_btn.clicked
ToggleClick ==
    /\ AppRunning /\ ~dialog.picker.open
    /\ \E due \in BOOLEAN, native_ok \in NativeOutcomes :
          Commit("toggle", dialog, toggle_highlighter(World, Env(due, native_ok)))

\* Controller.start_highlighter() called as a method
StartHighlighter ==
    /\ AppRunning
    /\ \E due \in BOOLEAN, native_ok \in NativeOutcomes :
          Commit("start", dialog, start_highlighter(World, Env(due, native_ok)))

\* Controller.stop_highlighter() called as a method
StopHighlighter ==
    /\ AppRunning
    /\ Commit("stop", dialog, stop_highlighter(World))

\* The overlay's QTimer fires: HighlightBar.update_position()
Tick ==
    /\ AppRunning /\ overlay # 0
    /\ bar' = update_position(bar, cursor)
    /\ last' = Record("tick", dialog, <<>>, FALSE)
    /\ err' = "none"
    /\ UNCHANGED <<store, dialog, overlay, shown, cursor, platform, qt, running,
                   listener, probe>>

\* The user moves the mouse.
MoveCursor ==
    /\ AppRunning
    /\ \E p \in CursorPoints \ {cursor} : cursor' = p
    /\ last' = Record("move", dialog, <<>>, FALSE)
    /\ err' = "none"
    /\ UNCHANGED <<store, dialog, overlay, bar, shown, platform, qt, running,
                   listener, probe>>

\* The state Controller.__init__ leaves when the store held one of `stores`.
InitFrom(stores) ==
    /\ \E st \in stores :
          /\ store = clearWindowSettings(st)
          /\ dialog = SettingsDialog_init(clearWindowSettings(st))
    /\ overlay = 0
    /\ bar = NoBar
    /\ shown = {}
    /\ cursor \in CursorPoints
    /\ platform \in Platforms
    /\ err = "none"
    /\ running = TRUE
    /\ last = [op |-> "init", after_stop |-> FALSE, shown_at |-> <<>>,
               native_failed |-> FALSE, found |-> "idle"]
    /\ listener = NoListener
    /\ probe = NoBar
    /\ qt = "module"

Init == InitFrom(InitStores)

Next ==
    \/ SetWidth
    \/ SetHeight
    \/ SetAlpha
    \/ ChooseColor
    \/ PreviewColor
    \/ AcceptColor
    \/ CancelColor
    \/ ToggleClick
    \/ Tick
    \/ MoveCursor

\* The running application: the events its event loop delivers.
Spec == Init /\ [][Next]_vars

NextAPI ==
    \/ Next
    \/ StartHighlighter
    \/ StopHighlighter

\* A first run: nothing is stored yet.
InitAPI == InitFrom({<<>>})

\* The application on its first run, with the Controller's start and stop
\* also called as methods.
SpecAPI == InitAPI /\ [][NextAPI]_vars

(***************************************************************************)
(* The application and its user's keyboard.  The Controller creates no     *)
(* HotkeyListener and installs no key handler: a key pressed while the     *)
(* settings window or no window of the program has the focus reaches no    *)
(* code of the program.  The event loop keeps delivering the overlay's     *)
(* timer events; what the user does is up to the user.                     *)
(***************************************************************************)
\* The user presses the abort key (Esc).
PressAbortKey ==
    /\ AppRunning /\ ~dialog.picker.open
    /\ last' = Record("press", dialog, <<>>, FALSE)
    /\ err' = "none"
    /\ UNCHANGED <<store, dialog, overlay, bar, shown, cursor, platform, qt, running,
                   listener, probe>>

InitAbort == InitAPI /\ platform = "linux"

NextAbort ==
    \/ Next
    \/ PressAbortKey

SpecAbort == InitAbort /\ [][NextAbort]_vars /\ WF_vars(Tick)

(***************************************************************************)
(* SettingsDialog.__init__ on its own: the store holds anything, and the   *)
(* dialog is constructed from it.                                          *)
(***************************************************************************)
StoredWidths == { <<"a", "b", "c">>, <<"1", "2", "3">>, <<>> }

StoredHeights == { <<"4", "x">>, <<"4", "5">> }

StoredAlphas == { <<"0", ".", "5">>, <<"h", "a", "l", "f">> }

StoredColors == { <<"#", "1", "1", "2", "2", "3", "3">>, <<"z", "z">> }

\* The stores: each key missing or holding one of the strings above.
LoadStores ==
    { st \in UNION { [ks -> StoredWidths \cup StoredHeights \cup StoredAlphas
                            \cup StoredColors \cup {<<"x">>}] :
                     ks \in SUBSET (PrefKeys \cup {"geometry"}) } :
        /\ "width" \in DOMAIN st => st["width"] \in StoredWidths
        /\ "height" \in DOMAIN st => st["height"] \in StoredHeights
        /\ "alpha" \in DOMAIN st => st["alpha"] \in StoredAlphas
        /\ "color" \in DOMAIN st => st["color"] \in StoredColors
        /\ "geometry" \in DOMAIN st => st["geometry"] = <<"x">> }

Idle(op) ==
    /\ qt = "module"
    /\ overlay = 0
    /\ bar = NoBar
    /\ shown = {}
    /\ err = "none"
    /\ running = TRUE
    /\ last = [op |-> op, after_stop |-> FALSE, shown_at |-> <<>>,
               native_failed |-> FALSE, found |-> "idle"]

InitLoad ==
    /\ store \in LoadStores
    /\ dialog = NoDialog
    /\ cursor = [x |-> 500, y |-> 300]
    /\ platform = "linux"
    /\ listener = NoListener
    /\ probe = NoBar
    /\ Idle("init")

\* SettingsDialog.__init__()
ConstructDialog ==
    /\ dialog = NoDialog /\ probe = NoBar /\ listener = NoListener
    /\ store' = clearWindowSettings(store)
    /\ dialog' = SettingsDialog_init(clearWindowSettings(store))
    /\ last' = [last EXCEPT !.op = "load"]
    /\ UNCHANGED <<overlay, bar, shown, cursor, platform, qt, err, running, listener, probe>>

NextLoad == ConstructDialog

SpecLoad == InitLoad /\ [][NextLoad]_vars

(***************************************************************************)
(* Preferences across runs: a dialog saves a Settings value, the program   *)
(* ends, and the next run constructs its dialog from the store.            *)
(***************************************************************************)
SavedWidths == {10, 123, 99999}

SavedHeights == {2, 45, 99, 100, 1000}

SavedAlphas == {5, 50, 100}

SavedColours == {QColor_rgb(17, 34, 51), QColor_rgb(255, 255, 0)}

\* Settings values within the ranges of the spin boxes, as get_settings
\* builds them.
SavedSettings ==
    { Settings(w, h, a, setAlphaF(c, a)) :
        w \in SavedWidths, h \in SavedHeights, a \in SavedAlphas, c \in SavedColours }

InitRoundTrip ==
    /\ store = <<>>
    /\ dialog = SettingsDialog_init(<<>>)
    /\ cursor = [x |-> 500, y |-> 300]
    /\ platform = "linux"
    /\ listener = NoListener
    /\ probe = NoBar
    /\ Idle("init")

\* dialog.save_settings(s); `last` keeps s.
SaveSettings ==
    /\ dialog # NoDialog
    /\ \E s \in SavedSettings :
          /\ store' = save_settings(store, s)
          /\ last' = [op |-> "save", after_stop |-> FALSE, shown_at |-> <<>>,
                      native_failed |-> FALSE, found |-> "idle", saved |-> s]
    /\ UNCHANGED <<dialog, overlay, bar, shown, cursor, platform, qt, err, running,
                   listener, probe>>

\* The program ends: the dialog is gone, the store stays.
CloseDialog ==
    /\ dialog # NoDialog
    /\ dialog' = NoDialog
    /\ last' = [last EXCEPT !.op = "close"]
    /\ UNCHANGED <<store, overlay, bar, shown, cursor, platform, qt, err, running,
                   listener, probe>>

NextRoundTrip ==
    \/ SaveSettings
    \/ CloseDialog
    \/ ConstructDialog

SpecRoundTrip == InitRoundTrip /\ [][NextRoundTrip]_vars

(***************************************************************************)
(* The start of the process: the module is executed from its first line,   *)
(* with PyQt5 installed or not, and then Controller() is called.  `last.op`*)
(* is the place the execution has reached.                                 *)
(***************************************************************************)
InitBoot ==
    /\ store \in LoadStores
    /\ dialog = NoDialog
    /\ cursor = [x |-> 500, y |-> 300]
    /\ platform = "linux"
    /\ listener = NoListener
    /\ probe = NoBar
    /\ qt \in {"installed", "missing"}
    /\ overlay = 0
    /\ bar = NoBar
    /\ shown = {}
    /\ err = "none"
    /\ running = TRUE
    /\ last = [op |-> "launch", after_stop |-> FALSE, shown_at |-> <<>>,
               native_failed |-> FALSE, found |-> "idle"]

\* try: from PyQt5 import QtGui, QtCore, QtWidgets
\* except Exception: QtGui = QtCore = QtWidgets = None
ImportToolkit ==
    /\ running /\ last.op = "launch"
    /\ qt' = IF qt = "installed" THEN "module" ELSE "None"
    /\ last' = [last EXCEPT !.op = "import"]
    /\ UNCHANGED <<store, dialog, overlay, bar, shown, cursor, platform, err, running,
                   listener, probe>>

\* The body of class Settings: the default of `color` is evaluated,
\* QtGui.QColor(255, 255, 0, int(0.3 * 255)); None has no attribute QColor,
\* and the exception ends the execution of the module.
DefineSettings ==
    /\ running /\ last.op = "import"
    /\ err' = IF qt = "None" THEN "AttributeError" ELSE "none"
    /\ running' = (qt # "None")
    /\ last' = [last EXCEPT !.op = "class Settings"]
    /\ UNCHANGED <<store, dialog, overlay, bar, shown, cursor, platform, qt,
                   listener, probe>>

\* Controller(): Controller.__init__ up to self.dialog = SettingsDialog().
Main ==
    /\ running /\ last.op = "class Settings"
    /\ err' = IF qt = "None" THEN "SystemExit" ELSE "none"
    /\ running' = (qt # "None")
    /\ store' = IF qt = "None" THEN store ELSE clearWindowSettings(store)
    /\ dialog' = IF qt = "None" THEN dialog
                 ELSE SettingsDialog_init(clearWindowSettings(store))
    /\ last' = [last EXCEPT !.op = "Controller"]
    /\ UNCHANGED <<overlay, bar, shown, cursor, platform, qt, listener, probe>>

NextBoot ==
    \/ ImportToolkit
    \/ DefineSettings
    \/ Main

SpecBoot == InitBoot /\ [][NextBoot]_vars

(***************************************************************************)
(* HotkeyListener on its own: constructed for a key, then fed key presses. *)
(* A pressed key has a char ("" stands for no char attribute, None or '')  *)
(* and may have a name (a missing or None name raises AttributeError).     *)
(***************************************************************************)
ListenerKeys == { <<"a">>, <<"A">>, <<"e", "s", "c">> }

KeyChars == { <<>>, <<"a">>, <<"A">>, <<"b">> }

KeyNames == { <<"a">>, <<"A">>, <<"e", "s", "c">>, <<"E", "s", "c">>, <<"f", "1">> }

KeyInputs ==
    [char : KeyChars, has_name : {TRUE}, name : KeyNames]
        \cup [char : KeyChars, has_name : {FALSE}, name : {<<>>}]

\* The threads that run _on_press: the thread of the pynput Listener that
\* HotkeyListener.__init__ hands _on_press to, and the main thread, from
\* which the tests call _on_press themselves.  The main thread is the one
\* that runs the UI.
Threads == {"listener", "main"}

\* HotkeyListener.__init__(key, callback)
HotkeyListener_init(key) ==
    [configured |-> key, key |-> lower(key), calls |-> 0, called |-> FALSE,
     event |-> [char |-> <<>>, has_name |-> FALSE, name |-> <<>>],
     pressed_on |-> "none", ran_on |-> "none"]

\* _on_press without lower() on the pressed key.
on_press_case_sensitive(l, key, thread) ==
    LET name == IF key.char # <<>> THEN key.char
                ELSE IF key.has_name THEN key.name
                ELSE <<>>
    IN  [l EXCEPT !.event = key,
                  !.called = (name = l.key),
                  !.calls = IF name = l.key THEN @ + 1 ELSE @,
                  !.pressed_on = thread,
                  !.ran_on = IF name = l.key THEN thread ELSE "none"]

\* HotkeyListener._on_press(key), run by `thread`: self._callback() is a
\* plain call, so the callback runs on the thread that runs _on_press.
on_press(l, key, thread) ==
    LET name == IF key.char # <<>> THEN lower(key.char)
                ELSE IF key.has_name THEN lower(key.name)
                ELSE <<>>
    IN  [l EXCEPT !.event = key,
                  !.called = (name = l.key),
                  !.calls = IF name = l.key THEN @ + 1 ELSE @,
                  !.pressed_on = thread,
                  !.ran_on = IF name = l.key THEN thread ELSE "none"]

InitKeys ==
    /\ store = <<>>
    /\ dialog = NoDialog
    /\ cursor = [x |-> 500, y |-> 300]
    /\ platform = "linux"
    /\ \E k \in ListenerKeys : listener = HotkeyListener_init(k)
    /\ probe = NoBar
    /\ Idle("init")

\* A key press is delivered to the listener: by pynput on its own thread,
\* or by a direct call of _on_press.
OnPress ==
    /\ listener # NoListener
    /\ listener.calls < MaxCalls
    /\ \E key \in KeyInputs, thread \in Threads :
          /\ listener' = on_press(listener, key, thread)
          /\ last' = [last EXCEPT !.op = "on_press"]
    /\ UNCHANGED <<store, dialog, overlay, bar, shown, cursor, platform, qt, err, running, probe>>

NextKeys == OnPress

SpecKeys == InitKeys /\ [][NextKeys]_vars

(***************************************************************************)
(* HighlightBar on its own, as the tests use it: built from a Settings     *)
(* value, then shown, updated, ticked and made click-through, in any       *)
(* order.                                                                  *)
(***************************************************************************)
\* The ends of the alpha range; Settings() has 0.3.
ProbeAlphas == {5, 100}

ProbeSettings ==
    { Settings_default } \cup
    { Settings(w, 45, a, c) :
        w \in {123, 1500}, a \in ProbeAlphas,
        c \in {QColor_invalid, QColor_rgb(17, 34, 51), Settings_default.color} }

InitBar ==
    /\ store = <<>>
    /\ dialog = NoDialog
    /\ cursor \in CursorPoints
    /\ platform \in Platforms
    /\ listener = NoListener
    /\ probe = HighlightBar_init(1, Settings_default, cursor)
    /\ Idle("init")

\* hb.update_settings(s)
ProbeUpdateSettings ==
    /\ probe # NoBar
    /\ \E s \in ProbeSettings, due \in BOOLEAN, native_ok \in NativeOutcomes :
          probe' = processEvents(update_settings(probe, s, cursor, platform, native_ok),
                                 cursor, due)
    /\ last' = [last EXCEPT !.op = "update_settings"]
    /\ UNCHANGED <<store, dialog, overlay, bar, shown, cursor, platform, qt, err, running,
                   listener>>

\* hb = HighlightBar(s): another bar takes the place of the first.
ProbeCreate ==
    /\ probe # NoBar
    /\ \E s \in ProbeSettings : probe' = HighlightBar_init(1, s, cursor)
    /\ last' = [last EXCEPT !.op = "create"]
    /\ UNCHANGED <<store, dialog, overlay, bar, shown, cursor, platform, qt, err, running,
                   listener>>

\* hb.show(), and the event loop processes the events of the showing.
ProbeShow ==
    /\ probe # NoBar /\ ~probe.visible
    /\ \E due \in BOOLEAN : probe' = processEvents(show(probe), cursor, due)
    /\ last' = [last EXCEPT !.op = "show"]
    /\ UNCHANGED <<store, dialog, overlay, bar, shown, cursor, platform, qt, err, running,
                   listener>>

\* hb.apply_click_through()
ProbeApplyClickThrough ==
    /\ probe # NoBar
    /\ \E native_ok \in NativeOutcomes :
          probe' = apply_click_through(probe, platform, native_ok)
    /\ last' = [last EXCEPT !.op = "apply_click_through"]
    /\ UNCHANGED <<store, dialog, overlay, bar, shown, cursor, platform, qt, err, running,
                   listener>>

\* The bar's QTimer fires.
ProbeTick ==
    /\ probe # NoBar
    /\ probe' = update_position(probe, cursor)
    /\ last' = [last EXCEPT !.op = "tick"]
    /\ UNCHANGED <<store, dialog, overlay, bar, shown, cursor, platform, qt, err, running,
                   listener>>

ProbeMoveCursor ==
    /\ probe # NoBar
    /\ \E p \in CursorPoints \ {cursor} : cursor' = p
    /\ last' = [last EXCEPT !.op = "move"]
    /\ UNCHANGED <<store, dialog, overlay, bar, shown, platform, qt, err, running,
                   listener, probe>>

NextBar ==
    \/ ProbeCreate
    \/ ProbeShow
    \/ ProbeApplyClickThrough
    \/ ProbeUpdateSettings
    \/ ProbeTick
    \/ ProbeMoveCursor

SpecBar == InitBar /\ [][NextBar]_vars

(***************************************************************************)
(* The properties.                                                         *)
(***************************************************************************)

\* The store holds the width, height, alpha and colour the dialog shows.
Persisted ==
    /\ PrefKeys \subseteq DOMAIN store
    /\ int_(store["width"]) = [ok |-> TRUE, val |-> dialog.width_spin]
    /\ int_(store["height"]) = [ok |-> TRUE, val |-> dialog.height_spin]
    /\ float_(store["alpha"]) = [ok |-> TRUE, val |-> dialog.alpha_spin]
    /\ store["color"] = QColor_name(dialog.color)

\* C1: every settings-change notification the Controller handles, with or
\* without an overlay, completes without raising and leaves the store
\* holding the dialog's current width, height, alpha and colour.
C1_NotificationPersists ==
    last.op = "live_update_settings" => (err = "none" /\ running /\ Persisted)

\* C2: start_highlighter while an overlay exists is a no-op: the handle is
\* kept, no second overlay is created or shown, and no earlier overlay is
\* left shown without a handle.
C2_StartWhileActiveIsNoOp ==
    [][(last'.op = "start" /\ overlay # 0) =>
          (overlay' = overlay /\ bar' = bar /\ shown' = shown)]_vars

\* C3: stop_highlighter without an overlay, in particular a second stop
\* directly after a first one, raises nothing, leaves the controller
\* without overlay handle or window, and leaves no key listener registered.
C3_StopWhileIdle ==
    (last.op = "stop" /\ last.found = "idle") =>
        /\ err = "none" /\ running
        /\ overlay = 0 /\ bar = NoBar /\ shown = {}
        /\ listener = NoListener

\* A second stop directly after a stop that closed the overlay.
C3_Witness ==
    last.op = "stop" /\ last.after_stop /\ last.found = "idle" /\ overlay = 0

\* C4: with an overlay, a settings change that leaves the colour as the
\* overlay has it keeps the overlay instance: the same object holds the new
\* settings, it is not closed, and no window is created or shown.
C4_SameColourKeepsInstance ==
    [][(last'.op = "live_update_settings" /\ last'.found = "same") =>
          /\ overlay' = overlay /\ bar'.id = bar.id
          /\ shown' = shown /\ overlay' \in shown'
          /\ last'.shown_at = <<>>
          /\ bar'.settings.width = dialog'.width_spin
          /\ bar'.settings.height = dialog'.height_spin
          /\ bar'.settings.alpha = dialog'.alpha_spin]_vars

\* An overlay that took a changed width, height or alpha in place.
C4_Witness ==
    /\ last.op = "live_update_settings" /\ last.found = "same"
    /\ overlay # 0 /\ overlay \in shown
    /\ bar.settings.width = 1500 /\ bar.settings.height = 45

\* C5: with an overlay, a settings change to another colour closes the
\* overlay, and the controller holds a new instance that carries the new
\* settings and is shown at the position the old overlay had.
C5_ColourChangeRecreates ==
    [][(last'.op = "live_update_settings" /\ last'.found = "changed") =>
          /\ overlay' # 0 /\ overlay' # overlay /\ bar'.id = overlay'
          /\ overlay \notin shown' /\ overlay' \in shown'
          /\ bar'.settings.width = dialog'.width_spin
          /\ bar'.settings.height = dialog'.height_spin
          /\ bar'.settings.alpha = dialog'.alpha_spin
          /\ RGB(bar'.color) = RGB(dialog'.color)
          /\ last'.shown_at = bar.pos]_vars

\* A recreated overlay that was shown where the old one had followed the
\* cursor to.
C5_Witness ==
    /\ last.op = "live_update_settings" /\ last.found = "changed"
    /\ overlay # 0 /\ overlay \in shown
    /\ last.shown_at # <<>> /\ last.shown_at # <<0, 0>>

\* C6: after every position tick the overlay's width is min(W, S), for W
\* the configured width and S the width of the screen under the cursor,
\* the primary screen if no screen contains the cursor.
C6_WidthFollowsScreen ==
    (last.op = "tick" /\ overlay # 0) =>
        bar.fixed[1] = Min(bar.settings.width, screen_w(cursor))

\* What a stored string is worth, for each key, or Unusable.
Unusable == [ok |-> FALSE, val |-> 0]

StoredInt(key) == IF key \in DOMAIN store THEN int_(store[key]) ELSE Unusable

StoredFloat(key) == IF key \in DOMAIN store THEN float_(store[key]) ELSE Unusable

\* C7: loading falls back per key: a missing or malformed width, height,
\* alpha or colour yields that key's default (screen width, 30, 0.3,
\* #ffff00), and every key stored well-formed keeps its stored value.
C7_PerKeyFallback ==
    last.op = "load" =>
        /\ dialog.width_spin = IF StoredInt("width").ok THEN StoredInt("width").val
                               ELSE primaryScreen.w
        /\ dialog.height_spin = IF StoredInt("height").ok THEN StoredInt("height").val
                                ELSE 30
        /\ dialog.alpha_spin = IF StoredFloat("alpha").ok THEN StoredFloat("alpha").val
                               ELSE 30
        /\ QColor_name(dialog.color) =
              IF "color" \in DOMAIN store /\ isValid(QColor_str(store["color"]))
              THEN lower(store["color"])
              ELSE <<"#", "f", "f", "f", "f", "0", "0">>

\* Two strings that differ at most in the case of their letters.
CaseEq(a, b) ==
    /\ Len(a) = Len(b)
    /\ \A i \in DOMAIN a : lower_char(a[i]) = lower_char(b[i])

\* The pressed key's character if it has a non-empty one, otherwise its name.
Matches(key, configured) ==
    IF key.char # <<>> THEN CaseEq(key.char, configured)
    ELSE key.has_name /\ CaseEq(key.name, configured)

\* C8: the listener calls its callback, once, on exactly those presses
\* whose character (if non-empty, otherwise whose name) equals the
\* configured key up to case.
C8_CallbackOnMatch ==
    [][/\ listener'.called = Matches(listener'.event, listener.configured)
       /\ listener'.calls = listener.calls +
                            (IF Matches(listener'.event, listener.configured)
                             THEN 1 ELSE 0)]_vars

\* The key "A" pressed on a listener for "a", twice, each calling back.
C8_Witness ==
    /\ last.op = "on_press"
    /\ listener.configured = <<"a">> /\ listener.event.char = <<"A">>
    /\ listener.called /\ listener.calls = 2

\* C9: after update_settings(s) the bar's settings are s and its stored
\* colour compares equal (QColor ==) to s.color.
C9_UpdateSettingsColour ==
    last.op = "update_settings" =>
        /\ probe.desired_height = probe.settings.height
        /\ probe.color = probe.settings.color

\* C10: Settings(), from which the bar is first built, has width 800,
\* height 30, alpha 0.3, colour #ffff00 and abort_key "esc".
C10_SettingsDefaults ==
    last.op = "init" =>
        /\ probe.settings.width = 800
        /\ probe.settings.height = 30
        /\ probe.settings.alpha = 30
        /\ QColor_name(probe.settings.color) = <<"#", "f", "f", "f", "f", "0", "0">>
        /\ "abort_key" \in DOMAIN probe.settings
        /\ probe.settings["abort_key"] = <<"e", "s", "c">>

\* C11: saving a Settings value within the ranges of the spin boxes and
\* then constructing a fresh dialog from the store gives, by get_settings,
\* the same width, height, alpha and #rrggbb colour.
C11_SaveLoadRoundTrip ==
    (last.op = "load" /\ "saved" \in DOMAIN last) =>
        /\ get_settings(dialog).width = last.saved.width
        /\ get_settings(dialog).height = last.saved.height
        /\ get_settings(dialog).alpha = last.saved.alpha
        /\ QColor_name(get_settings(dialog).color) = QColor_name(last.saved.color)

\* C12: in every state of the controller a key listener is running exactly
\* when an overlay exists.
C12_ListenerIffActive ==
    dialog # NoDialog => ((overlay # 0) <=> (listener # NoListener))

\* C13: whenever the abort key is pressed while an overlay exists, the
\* controller eventually has no overlay: no handle and no window.
C13_AbortKeyLeadsToIdle ==
    (last.op = "press" /\ overlay # 0) ~> (overlay = 0 /\ shown = {})

\* C14: every overlay the controller holds was created, shown and flushed
\* before click-through was applied to it: click-through is applied, and
\* it was applied to a window that was visible and whose events had been
\* processed.
C14_ClickThroughAfterFlush ==
    overlay # 0 =>
        /\ bar.visible /\ bar.flushed
        /\ bar.click_through_applied
        /\ bar.realized_at_apply

\* An overlay recreated for a colour change, with click-through applied.
C14_Witness ==
    /\ last.op = "live_update_settings" /\ last.found = "changed"
    /\ overlay # 0 /\ bar.click_through_applied /\ bar.realized_at_apply

\* C15: a start whose native click-through call raises (on Windows or on
\* macOS; Linux makes none) completes without an exception, with the
\* overlay held, shown and marked click-through.
C15_ClickThroughFailureSwallowed ==
    (last.op = "toggle" /\ last.found = "idle" /\ last.native_failed) =>
        /\ err = "none" /\ running
        /\ overlay # 0 /\ overlay \in shown
        /\ bar.visible /\ bar.click_through_applied

\* A start on Windows whose native call failed: no layered alpha was set.
C15_Witness ==
    /\ last.op = "toggle" /\ last.found = "idle" /\ last.native_failed
    /\ platform = "win32" /\ bar.layered_alpha = NoAlpha
    /\ overlay \in shown /\ bar.click_through_applied

\* C16: a key press that pynput delivers on the listener thread makes the
\* stop callback run on the UI (main) thread, never on the listener thread.
C16_CallbackOnUIThread ==
    (last.op = "on_press" /\ listener.pressed_on = "listener" /\ listener.called) =>
        listener.ran_on = "main"

\* C17: when PyQt5 cannot be imported the process ends with the SystemExit
\* that Controller raises, not with another error before it.
C17_ToolkitMissingExits ==
    (qt = "None" /\ last.op # "import") => (~running /\ err = "SystemExit")

\* QColor.alphaF(), to the nearest hundredth.
alphaF(c) == (c.a * 100 + (AlphaOpaque \div 2)) \div AlphaOpaque

\* C18: whatever bars were created and settings updated before, the last
\* fill painted on the bar has the bar's stored red, green and blue and
\* the opacity of the bar's current settings.
C18_PaintUsesCurrentAlpha ==
    (probe # NoBar /\ probe.visible) =>
        /\ probe.fill # NoFill
        /\ RGB(probe.fill) = RGB(probe.color)
        /\ alphaF(probe.fill) = probe.settings.alpha

\* A visible bar updated to alpha 0.05 and colour #112233: its stored
\* colour is opaque, and it is painted with 0.05.
C18_Witness ==
    /\ last.op = "update_settings"
    /\ probe.visible /\ probe.settings.alpha = 5
    /\ alphaF(probe.fill) = 5 /\ RGB(probe.fill) = <<17, 34, 51>>

\* C19: after every position tick the bar's x is the origin x of the
\* screen that contains the cursor, 0 if none does, and its y is the
\* cursor's y minus half the height of the bar's current settings, rounded
\* down.
C19_TickPosition ==
    last.op = "tick" =>
        /\ probe.pos[1] = (IF screenAt(cursor) # 0 THEN Screens[screenAt(cursor)].x ELSE 0)
        /\ probe.pos[2] = cursor.y - (probe.settings.height \div 2)

\* A tick on the second screen after the height became 45 (Settings() has
\* 30): y is 300 - 22.
C19_Witness ==
    /\ last.op = "tick" /\ probe.settings.height = 45
    /\ cursor = [x |-> 1500, y |-> 300] /\ probe.pos = <<1000, 278>>

\* C20: a bar starts without the click-through flag, has it after
\* apply_click_through, and keeps it through every later tick, update and
\* apply; an apply on a bar that has the flag changes nothing and makes no
\* native call.
C20_ClickThroughOneWay ==
    [][/\ last'.op = "create" => ~probe'.click_through_applied
       /\ last'.op = "apply_click_through" => probe'.click_through_applied
       /\ (last'.op # "create" /\ probe.click_through_applied) =>
              /\ probe'.click_through_applied
              /\ last'.op = "apply_click_through" => probe' = probe]_vars

\* A second apply on Windows that a native call would have shown: the
\* layered alpha is still the 0.05 of the first apply (an update to 1.0
\* failed natively in between).
C20_Witness ==
    /\ last.op = "apply_click_through" /\ probe.click_through_applied
    /\ platform = "win32"
    /\ probe.settings.alpha = 100 /\ probe.layered_alpha = int_alpha255(5)

\* C21: after every toggle click and settings-change notification the
\* dialog's highlighter_active flag is set, and the toggle button reads
\* 'Stop Highlighter', exactly when the controller holds an overlay; and a
\* toggle click takes the controller from no overlay to one, or back.
C21_ToggleStateFollowsOverlay ==
    [][/\ dialog'.highlighter_active <=> (overlay' # 0)
       /\ (dialog'.toggle_text = "Stop Highlighter") <=> (overlay' # 0)
       /\ (dialog'.toggle_text = "Start Highlighter") <=> (overlay' = 0)
       /\ last'.op = "toggle" => ((overlay' # 0) <=> (overlay = 0))]_vars

\* A toggle click that found an overlay, with the dialog showing colour
\* #112233 and height 30, and stopped it: the button reads 'Start
\* Highlighter' again.
C21_Witness ==
    /\ last.op = "toggle" /\ last.found = "same"
    /\ overlay = 0 /\ ~dialog.highlighter_active
    /\ dialog.toggle_text = "Start Highlighter"
    /\ RGB(dialog.color) = <<17, 34, 51>> /\ dialog.height_spin = 30

\* C22: with an overlay, after every start and every settings-change
\* notification the overlay's settings have the width, height and alpha,
\* and its stored colour the red, green and blue, that the dialog shows.
C22_OverlayMatchesDialog ==
    (overlay # 0 /\ last.op \in {"toggle", "live_update_settings"}) =>
        /\ bar.settings.width = dialog.width_spin
        /\ bar.settings.height = dialog.height_spin
        /\ bar.settings.alpha = dialog.alpha_spin
        /\ RGB(bar.color) = RGB(dialog.color)
        /\ RGB(bar.settings.color) = RGB(dialog.color)

\* An overlay updated in place to alpha 1.0 after it had been recreated
\* in colour #112233.
C22_Witness ==
    /\ last.op = "live_update_settings" /\ last.found = "same"
    /\ overlay = 2 /\ bar.settings.alpha = 100 /\ dialog.alpha_spin = 100
    /\ RGB(bar.color) = <<17, 34, 51>>

\* C23: after construction and after every update_settings, tick and
\* apply_click_through the bar's fixed size is (_desired_width,
\* _desired_height), the desired height is the height of the current
\* settings, and the desired width is at most their width.
C23_FixedSizeIsDesired ==
    probe # NoBar =>
        /\ probe.fixed = <<probe.desired_width, probe.desired_height>>
        /\ probe.desired_height = probe.settings.height
        /\ probe.desired_width <= probe.settings.width

\* A tick on the first screen (1000 wide) of a bar whose settings ask for
\* 1500 and that click-through was applied to on Windows.
C23_Witness ==
    /\ last.op = "tick" /\ platform = "win32" /\ probe.click_through_applied
    /\ cursor = [x |-> 500, y |-> 300]
    /\ probe.settings.width = 1500 /\ probe.fixed = <<1000, 45>>

=============================================================================
